---- MODULE Spec2Model ----
(***************************************************************************)
(* VM lifecycle orchestrator and remote-access provisioning of yanrbts/vm. *)
(*                                                                         *)
(* The model follows the deployed variant: the Flask front end (app3.py)   *)
(* calls the FastAPI service (libvirt_server.py), which drives the         *)
(* LibvirtManager (vms/vm_libvirt_manager.py) and the GuacamoleClient      *)
(* (vms/guacamodel.py); the record store is database.py.                   *)
(*                                                                         *)
(* The hypervisor, the file system and the gateway are the environment:    *)
(* they are state of the model, changed by the program's calls and by the  *)
(* environment actions at the end of the module.  External failures (a     *)
(* command exiting non-zero, a hypervisor call raising, a gateway request  *)
(* answered with an error) are inputs of the actions: each request takes   *)
(* one fault point, or "none".                                             *)
(***************************************************************************)
EXTENDS Integers, Sequences, FiniteSets, TLC

VARIABLES
    hvUp,        \* the hypervisor endpoint accepts libvirt.open
    conn,        \* LibvirtManager.conn: "none", "live" or "dead"
    domains,     \* hypervisor-known domains: name -> [state, vnc_port, file]
    files,       \* names whose overlay <pool>/<name>.qcow2 exists
    baseImage,   \* the golden image exists at BASE_IMAGE_PATH
    gwUsers,     \* gateway users, by username
    gwConns,     \* gateway connections: identifier -> [name, port, maxconn]
    gwPerms,     \* gateway READ permissions: <<username, identifier>>
    nextConnId,  \* the identifier the gateway gives its next connection
    records,     \* record store: name -> [connid, status, vnc_port, link]
    last,        \* what the last request did and answered
    requests,    \* number of requests and environment steps so far
    creating,    \* Create calls in flight: name -> [pc, port, steps, active]
    view         \* the list view in flight: [pc, rows, map, gone, back]

vars == <<hvUp, conn, domains, files, baseImage, gwUsers, gwConns, gwPerms, nextConnId, records, last, requests, creating, view>>

----------------------------------------------------------------------------
(* Bounds and program constants *)

\* VM names of the requests.  "1" is the text of a gateway identifier.
Names == {"a", "1"}

\* The gateway stops handing out identifiers after this one.
MaxConnId == 2

\* Runs are followed for this many requests and environment steps.
MaxRequests == 4

\* First console port probed by create_vm_from_template.
VNC_PORT_START == 5900

\* Default concurrent-session cap of grant_user_permissions.
DEFAULT_MAXCONN == 3

\* libvirt domain state codes (virDomainState).
VIR_DOMAIN_NOSTATE == 0
VIR_DOMAIN_RUNNING == 1
VIR_DOMAIN_BLOCKED == 2
VIR_DOMAIN_PAUSED == 3
VIR_DOMAIN_SHUTDOWN == 4
VIR_DOMAIN_SHUTOFF == 5
VIR_DOMAIN_CRASHED == 6
VIR_DOMAIN_PMSUSPENDED == 7

\* Status texts the front end writes itself (Chinese in the source, given
\* here in pinyin): running, shutting down, shut off.
ST_RUNNING_CN == "yunxingzhong"
ST_STOPPING_CN == "zhengzaiguanji"
ST_SHUTOFF_CN == "yiguanji"

TEMPLATE_NAME == "kali-linux-2025.2-qemu-amd64.qcow2"

None == [t |-> "none"]
PyInt(i) == [t |-> "int", v |-> i]
PyStr(s) == [t |-> "str", v |-> s]

----------------------------------------------------------------------------
(* Hypervisor session *)

\* _connect that keeps a handle it holds, dead or alive.
connect_keep_dead(c, up) ==
    IF c # "none" THEN c
    ELSE IF up THEN "live" ELSE "none"

\* _connect: keeps a live handle, else opens one; a failed open leaves None.
connect(c, up) ==
    IF c = "live" THEN "live"
    ELSE IF up THEN "live" ELSE "none"

\* _reconnect without the isAlive probe and without reopening: the handle
\* is taken to be usable.
reconnect_assumed(c, up) == "live"

\* _reconnect: reopens when the handle is missing or probed dead.
reconnect(c, up) ==
    IF c = "none" \/ c # "live" THEN connect(c, up) ELSE c

----------------------------------------------------------------------------
(* Status normalization and descriptor readers *)

\* A status map of two names: running, and shut off for everything else.
status_map_coarse(code) ==
    IF code = VIR_DOMAIN_RUNNING THEN "Running" ELSE "Shut Off"

\* status_map.get(info[0], 'Unknown State')
status_map(code) ==
    CASE code = VIR_DOMAIN_NOSTATE -> "No State"
      [] code = VIR_DOMAIN_RUNNING -> "Running"
      [] code = VIR_DOMAIN_BLOCKED -> "Blocked"
      [] code = VIR_DOMAIN_PAUSED -> "Paused"
      [] code = VIR_DOMAIN_SHUTDOWN -> "Shutting Down"
      [] code = VIR_DOMAIN_SHUTOFF -> "Shut Off"
      [] code = VIR_DOMAIN_CRASHED -> "Crashed"
      [] code = VIR_DOMAIN_PMSUSPENDED -> "Suspended"
      [] OTHER -> "Unknown State"

\* dom.isActive(): the domain has a running instance.
isActive(d) ==
    d.state \in {VIR_DOMAIN_RUNNING, VIR_DOMAIN_BLOCKED, VIR_DOMAIN_PAUSED,
                 VIR_DOMAIN_SHUTDOWN, VIR_DOMAIN_PMSUSPENDED}

\* _get_vnc_port: the port of the descriptor, None when it is dynamic (-1).
get_vnc_port(d) ==
    IF d.vnc_port # -1 THEN PyInt(d.vnc_port) ELSE None

\* _get_disk_path: the source file of the vda disk of the descriptor.
get_disk_path(d) == d.file

\* _get_domain_details: the live view of one domain.
get_domain_details(name, d) ==
    [name |-> name, status |-> status_map(d.state),
     vnc_port |-> get_vnc_port(d), disk_path |-> get_disk_path(d)]

\* Status(name): the normalized status of a known domain, or NotFound.
Status(doms, name) ==
    IF name \in DOMAIN doms THEN get_domain_details(name, doms[name]).status
    ELSE "NotFound"

\* Ports on which a console listener accepts connections on 127.0.0.1:
\* every active domain listens on the port of its descriptor.
Listeners(doms) ==
    {doms[n].vnc_port : n \in {m \in DOMAIN doms : isActive(doms[m])}}

\* The port probe without its loop: the first port is taken as it is.
ProbeNone(p, listening) == p

\* The port probe of create_vm_from_template: the first port from p upward
\* whose connection attempt is refused.
RECURSIVE ProbePort(_, _)
ProbePort(p, listening) ==
    IF p \in listening THEN ProbePort(p + 1, listening) ELSE p

\* The highest port s.connect takes; a higher one raises OverflowError.
PORT_MAX == 65535

\* The probe loop that moves on before its first attempt.
RECURSIVE probe_loop_past(_, _, _)
probe_loop_past(p, listening, attempts) ==
    IF p + 1 > PORT_MAX
    THEN [port |-> p + 1, attempts |-> attempts + 1, raised |-> TRUE]
    ELSE IF (p + 1) \in listening
    THEN probe_loop_past(p + 1, listening, attempts + 1)
    ELSE [port |-> p + 1, attempts |-> attempts + 1, raised |-> FALSE]

\* The probe loop attempt by attempt: an accepted connection moves on to
\* the next port, a refused or timed-out one ends the loop; a port beyond
\* PORT_MAX ends it by an exception that the loop does not catch.
RECURSIVE probe_loop(_, _, _)
probe_loop(p, listening, attempts) ==
    IF p > PORT_MAX
    THEN [port |-> p, attempts |-> attempts + 1, raised |-> TRUE]
    ELSE IF p \in listening
    THEN probe_loop(p + 1, listening, attempts + 1)
    ELSE [port |-> p, attempts |-> attempts + 1, raised |-> FALSE]

----------------------------------------------------------------------------
(* VM lifecycle manager (vms/vm_libvirt_manager.py).  Each operation is an *)
(* operator from the state it reads (handle, domains, overlay files) and   *)
(* its fault point to the state it leaves and what it returns.  steps is   *)
(* the sequence of hypervisor calls and external commands it made.         *)

MgrResult(c, doms, fs, ok, msg, port, steps) ==
    [conn |-> c, domains |-> doms, files |-> fs, ok |-> ok, msg |-> msg,
     vnc_port |-> port, steps |-> steps]

CreateFaults ==
    {"rm_stale", "clone", "chown", "chmod", "define_none", "define_raise",
     "start_raise", "start_raise_rm"}

\* The descriptor with the port left to the hypervisor (port='-1').
DefinedDomain_autoport(name, port) ==
    [state |-> VIR_DOMAIN_SHUTOFF, vnc_port |-> -1, file |-> name]

\* The descriptor create_vm_from_template renders: the overlay as vda, the
\* probed port with autoport='no'.  defineXML leaves the domain shut off.
DefinedDomain(name, port) ==
    [state |-> VIR_DOMAIN_SHUTOFF, vnc_port |-> port, file |-> name]

\* The except branch of create_vm_from_template: force-remove the overlay
\* if it exists, log the outcome, return the failure.
create_cleanup(c, doms, fs, name, rmFails, steps) ==
    IF name \in fs
    THEN MgrResult(c, doms, IF rmFails THEN fs ELSE fs \ {name}, FALSE,
                   "HypervisorError", -1, Append(steps, "rm_force"))
    ELSE MgrResult(c, doms, fs, FALSE, "HypervisorError", -1, steps)

\* create_define_start without dom.create(): the domain is defined and
\* success is returned, but it was never started.
create_define_unstarted(c, doms, fs, name, fault, port, steps) ==
    IF fault = "define_raise"
    THEN create_cleanup(c, doms, fs, name, FALSE, Append(steps, "defineXML"))
    ELSE IF fault = "define_none"
    THEN MgrResult(c, doms, fs, FALSE, "DefineFailed", -1, Append(steps, "defineXML"))
    ELSE MgrResult(c, (name :> DefinedDomain(name, port)) @@ doms, fs, TRUE, "Created",
                   port, Append(steps, "defineXML"))

\* create_vm_from_template from the definition of the domain on.
create_define_start(c, doms, fs, name, fault, port, steps) ==
    IF fault = "define_raise"
    THEN create_cleanup(c, doms, fs, name, FALSE, Append(steps, "defineXML"))
    ELSE IF fault = "define_none"
    THEN MgrResult(c, doms, fs, FALSE, "DefineFailed", -1, Append(steps, "defineXML"))
    ELSE LET defined == (name :> DefinedDomain(name, port)) @@ doms
             steps2 == steps \o <<"defineXML", "create">>
         IN  IF fault \in {"start_raise", "start_raise_rm"}
             THEN create_cleanup(c, defined, fs, name, fault = "start_raise_rm", steps2)
             ELSE MgrResult(c, [defined EXCEPT ![name].state = VIR_DOMAIN_RUNNING],
                            fs, TRUE, "Created", port, steps2)

\* create_vm_from_template from the clone of the golden image on.
create_clone(c, doms, fs, name, fault, steps) ==
    IF fault = "clone"
    THEN MgrResult(c, doms, fs, FALSE, "CommandFailure", -1, Append(steps, "qemu_img_create"))
    ELSE LET cloned == fs \cup {name}
         IN  IF fault = "chown"
             THEN MgrResult(c, doms, cloned, FALSE, "CommandFailure", -1,
                            steps \o <<"qemu_img_create", "chown">>)
             ELSE IF fault = "chmod"
             THEN MgrResult(c, doms, cloned, FALSE, "CommandFailure", -1,
                            steps \o <<"qemu_img_create", "chown", "chmod">>)
             ELSE create_define_start(c, doms, cloned, name, fault,
                                      ProbePort(VNC_PORT_START, Listeners(doms)),
                                      steps \o <<"qemu_img_create", "chown", "chmod", "probe">>)

\* create_vm_from_template from the clone to the port probe: the overlay is
\* cloned and its ownership and mode are set.
clone_until_probe(c, doms, fs, name, fault, steps) ==
    IF fault = "clone"
    THEN MgrResult(c, doms, fs, FALSE, "CommandFailure", -1, Append(steps, "qemu_img_create"))
    ELSE LET cloned == fs \cup {name}
         IN  IF fault = "chown"
             THEN MgrResult(c, doms, cloned, FALSE, "CommandFailure", -1,
                            steps \o <<"qemu_img_create", "chown">>)
             ELSE IF fault = "chmod"
             THEN MgrResult(c, doms, cloned, FALSE, "CommandFailure", -1,
                            steps \o <<"qemu_img_create", "chown", "chmod">>)
             ELSE MgrResult(c, doms, cloned, TRUE, "Cloned", -1,
                            steps \o <<"qemu_img_create", "chown", "chmod">>)

\* create_vm_from_template up to the port probe: reconnect, the golden
\* image, the name, a stale overlay, the clone.
create_until_probe(c0, doms, fs, up, base, name, fault) ==
    LET c == reconnect(c0, up)
    IN  IF c # "live"
        THEN MgrResult(c, doms, fs, FALSE, "ConnectionFailure", -1, <<>>)
        ELSE IF ~base
        THEN MgrResult(c, doms, fs, FALSE, "TemplateMissing", -1, <<>>)
        ELSE IF name \in DOMAIN doms
        THEN MgrResult(c, doms, fs, FALSE, "AlreadyExists", -1, <<"lookupByName">>)
        ELSE IF name \in fs
        THEN IF fault = "rm_stale"
             THEN MgrResult(c, doms, fs, FALSE, "CommandFailure", -1,
                            <<"lookupByName", "rm_force">>)
             ELSE clone_until_probe(c, doms, fs \ {name}, name, fault,
                                    <<"lookupByName", "rm_force">>)
        ELSE clone_until_probe(c, doms, fs, name, fault, <<"lookupByName">>)

\* create_vm_from_template without the lookup of the name: a known name is
\* cloned and defined again.
create_vm_from_template_unchecked(c0, doms, fs, up, base, name, fault) ==
    LET c == reconnect(c0, up)
    IN  IF c # "live"
        THEN MgrResult(c, doms, fs, FALSE, "ConnectionFailure", -1, <<>>)
        ELSE IF ~base
        THEN MgrResult(c, doms, fs, FALSE, "TemplateMissing", -1, <<>>)
        ELSE IF name \in fs
        THEN IF fault = "rm_stale"
             THEN MgrResult(c, doms, fs, FALSE, "CommandFailure", -1, <<"rm_force">>)
             ELSE create_clone(c, doms, fs \ {name}, name, fault, <<"rm_force">>)
        ELSE create_clone(c, doms, fs, name, fault, <<>>)

\* create_vm_from_template without the check of the golden image.
create_vm_from_template_unbased(c0, doms, fs, up, base, name, fault) ==
    LET c == reconnect(c0, up)
    IN  IF c # "live"
        THEN MgrResult(c, doms, fs, FALSE, "ConnectionFailure", -1, <<>>)
        ELSE IF name \in DOMAIN doms
        THEN MgrResult(c, doms, fs, FALSE, "AlreadyExists", -1, <<"lookupByName">>)
        ELSE IF name \in fs
        THEN IF fault = "rm_stale"
             THEN MgrResult(c, doms, fs, FALSE, "CommandFailure", -1,
                            <<"lookupByName", "rm_force">>)
             ELSE create_clone(c, doms, fs \ {name}, name, fault,
                               <<"lookupByName", "rm_force">>)
        ELSE create_clone(c, doms, fs, name, fault, <<"lookupByName">>)

\* create_vm_from_template that clones over an overlay it finds.
create_vm_from_template_overwrite(c0, doms, fs, up, base, name, fault) ==
    LET c == reconnect(c0, up)
    IN  IF c # "live"
        THEN MgrResult(c, doms, fs, FALSE, "ConnectionFailure", -1, <<>>)
        ELSE IF ~base
        THEN MgrResult(c, doms, fs, FALSE, "TemplateMissing", -1, <<>>)
        ELSE IF name \in DOMAIN doms
        THEN MgrResult(c, doms, fs, FALSE, "AlreadyExists", -1, <<"lookupByName">>)
        ELSE create_clone(c, doms, fs, name, fault, <<"lookupByName">>)

\* create_vm_from_template: reconnect, the golden image, the name, a stale
\* overlay, then the clone.
create_vm_from_template(c0, doms, fs, up, base, name, fault) ==
    LET c == reconnect(c0, up)
    IN  IF c # "live"
        THEN MgrResult(c, doms, fs, FALSE, "ConnectionFailure", -1, <<>>)
        ELSE IF ~base
        THEN MgrResult(c, doms, fs, FALSE, "TemplateMissing", -1, <<>>)
        ELSE IF name \in DOMAIN doms
        THEN MgrResult(c, doms, fs, FALSE, "AlreadyExists", -1, <<"lookupByName">>)
        ELSE IF name \in fs
        THEN IF fault = "rm_stale"
             THEN MgrResult(c, doms, fs, FALSE, "CommandFailure", -1,
                            <<"lookupByName", "rm_force">>)
             ELSE create_clone(c, doms, fs \ {name}, name, fault,
                               <<"lookupByName", "rm_force">>)
        ELSE create_clone(c, doms, fs, name, fault, <<"lookupByName">>)

\* What the hypervisor answers to lookupByName for a missing domain, against
\* any other failure of a call.
LookupError(doms, name) ==
    IF name \in DOMAIN doms THEN "HypervisorError" ELSE "NotFound"

\* start_vm: lookupByName, then dom.create(), which libvirt refuses for a
\* domain that is already active.
start_vm(c0, doms, fs, up, name, fault) ==
    LET c == reconnect(c0, up)
    IN  IF c # "live"
        THEN MgrResult(c, doms, fs, FALSE, "ConnectionFailure", -1, <<>>)
        ELSE IF name \notin DOMAIN doms
        THEN MgrResult(c, doms, fs, FALSE, "NotFound", -1, <<"lookupByName">>)
        ELSE IF fault = "call_raise" \/ isActive(doms[name])
        THEN MgrResult(c, doms, fs, FALSE, "HypervisorError", -1, <<"lookupByName", "create">>)
        ELSE MgrResult(c, [doms EXCEPT ![name].state = VIR_DOMAIN_RUNNING], fs, TRUE,
                       "Started", -1, <<"lookupByName", "create">>)

\* stop_vm that returns only once the domain is shut off.
stop_vm_forced(c0, doms, fs, up, name, fault) ==
    LET c == reconnect(c0, up)
    IN  IF c # "live"
        THEN MgrResult(c, doms, fs, FALSE, "ConnectionFailure", -1, <<>>)
        ELSE IF name \notin DOMAIN doms
        THEN MgrResult(c, doms, fs, FALSE, "NotFound", -1, <<"lookupByName">>)
        ELSE IF fault = "call_raise" \/ ~isActive(doms[name])
        THEN MgrResult(c, doms, fs, FALSE, "HypervisorError", -1, <<"lookupByName", "shutdown">>)
        ELSE MgrResult(c, [doms EXCEPT ![name].state = VIR_DOMAIN_SHUTOFF], fs, TRUE,
                       "ShuttingDown", -1, <<"lookupByName", "shutdown">>)

\* stop_vm: lookupByName, then dom.shutdown(), which only signals the guest
\* (libvirt refuses it for a domain that is not active).
stop_vm(c0, doms, fs, up, name, fault) ==
    LET c == reconnect(c0, up)
    IN  IF c # "live"
        THEN MgrResult(c, doms, fs, FALSE, "ConnectionFailure", -1, <<>>)
        ELSE IF name \notin DOMAIN doms
        THEN MgrResult(c, doms, fs, FALSE, "NotFound", -1, <<"lookupByName">>)
        ELSE IF fault = "call_raise" \/ ~isActive(doms[name])
        THEN MgrResult(c, doms, fs, FALSE, "HypervisorError", -1, <<"lookupByName", "shutdown">>)
        ELSE MgrResult(c, doms, fs, TRUE, "ShuttingDown", -1, <<"lookupByName", "shutdown">>)

\* destroy_vm that powers off every active domain, not only the named one.
destroy_vm_every(c0, doms, fs, up, name, fault) ==
    LET c == reconnect(c0, up)
    IN  IF c # "live"
        THEN MgrResult(c, doms, fs, FALSE, "ConnectionFailure", -1, <<>>)
        ELSE IF name \notin DOMAIN doms
        THEN MgrResult(c, doms, fs, FALSE, "NotFound", -1, <<"lookupByName">>)
        ELSE IF fault = "call_raise" \/ ~isActive(doms[name])
        THEN MgrResult(c, doms, fs, FALSE, "HypervisorError", -1, <<"lookupByName", "destroy">>)
        ELSE MgrResult(c, [n \in DOMAIN doms |-> [doms[n] EXCEPT !.state = VIR_DOMAIN_SHUTOFF]],
                       fs, TRUE, "Destroyed", -1, <<"lookupByName", "destroy">>)

\* destroy_vm that also removes the overlay of the domain it powers off.
destroy_vm_rm(c0, doms, fs, up, name, fault) ==
    LET c == reconnect(c0, up)
    IN  IF c # "live"
        THEN MgrResult(c, doms, fs, FALSE, "ConnectionFailure", -1, <<>>)
        ELSE IF name \notin DOMAIN doms
        THEN MgrResult(c, doms, fs, FALSE, "NotFound", -1, <<"lookupByName">>)
        ELSE IF fault = "call_raise" \/ ~isActive(doms[name])
        THEN MgrResult(c, doms, fs, FALSE, "HypervisorError", -1, <<"lookupByName", "destroy">>)
        ELSE MgrResult(c, [doms EXCEPT ![name].state = VIR_DOMAIN_SHUTOFF], fs \ {name}, TRUE,
                       "Destroyed", -1, <<"lookupByName", "destroy">>)

\* destroy_vm: lookupByName, then dom.destroy(), the forced power-off
\* (libvirt refuses it for a domain that is not active).
destroy_vm(c0, doms, fs, up, name, fault) ==
    LET c == reconnect(c0, up)
    IN  IF c # "live"
        THEN MgrResult(c, doms, fs, FALSE, "ConnectionFailure", -1, <<>>)
        ELSE IF name \notin DOMAIN doms
        THEN MgrResult(c, doms, fs, FALSE, "NotFound", -1, <<"lookupByName">>)
        ELSE IF fault = "call_raise" \/ ~isActive(doms[name])
        THEN MgrResult(c, doms, fs, FALSE, "HypervisorError", -1, <<"lookupByName", "destroy">>)
        ELSE MgrResult(c, [doms EXCEPT ![name].state = VIR_DOMAIN_SHUTOFF], fs, TRUE,
                       "Destroyed", -1, <<"lookupByName", "destroy">>)

DeleteFaults == {"destroy_raise", "xml_raise", "undefine_raise", "rm_fail"}

\* The domains left when one is undefined.
Undefine(doms, name) == [n \in DOMAIN doms \ {name} |-> doms[n]]

\* delete_vm after the power-off step, without the removal of the disk file.
delete_undefine_keep(c, doms, fs, name, fault, steps) ==
    IF fault = "xml_raise"
    THEN MgrResult(c, doms, fs, FALSE, "HypervisorError", -1, Append(steps, "XMLDesc"))
    ELSE IF fault = "undefine_raise"
    THEN MgrResult(c, doms, fs, FALSE, "HypervisorError", -1, steps \o <<"XMLDesc", "undefine">>)
    ELSE MgrResult(c, Undefine(doms, name), fs, TRUE, "Deleted", -1,
                   steps \o <<"XMLDesc", "undefine">>)

\* delete_vm after the power-off step with the disk file removed before the
\* domain is undefined.
delete_rm_undefine(c, doms, fs, name, fault, steps) ==
    IF fault = "xml_raise"
    THEN MgrResult(c, doms, fs, FALSE, "HypervisorError", -1, Append(steps, "XMLDesc"))
    ELSE LET removed == fs \ {get_disk_path(doms[name])}
         IN  IF fault = "undefine_raise"
             THEN MgrResult(c, doms, removed, FALSE, "HypervisorError", -1,
                            steps \o <<"XMLDesc", "rm_force", "undefine">>)
             ELSE MgrResult(c, Undefine(doms, name), removed, TRUE, "Deleted", -1,
                            steps \o <<"XMLDesc", "rm_force", "undefine">>)

\* delete_vm after the power-off step: read the disk path, undefine, remove
\* the disk file if it exists.
delete_undefine_rm(c, doms, fs, name, fault, steps) ==
    IF fault = "xml_raise"
    THEN MgrResult(c, doms, fs, FALSE, "HypervisorError", -1, Append(steps, "XMLDesc"))
    ELSE IF fault = "undefine_raise"
    THEN MgrResult(c, doms, fs, FALSE, "HypervisorError", -1, steps \o <<"XMLDesc", "undefine">>)
    ELSE LET disk_path == get_disk_path(doms[name])
             gone == Undefine(doms, name)
             steps2 == steps \o <<"XMLDesc", "undefine">>
         IN  IF disk_path \in fs
             THEN IF fault = "rm_fail"
                  THEN MgrResult(c, gone, fs, FALSE, "PartialDeleteFailure", -1,
                                 Append(steps2, "rm_force"))
                  ELSE MgrResult(c, gone, fs \ {disk_path}, TRUE, "Deleted", -1,
                                 Append(steps2, "rm_force"))
             ELSE MgrResult(c, gone, fs, TRUE, "Deleted", -1, steps2)

\* delete_vm without the isActive test: every domain is force-powered off,
\* which the hypervisor refuses for a domain that is not active.
delete_vm_always_destroy(c0, doms, fs, up, name, fault) ==
    LET c == reconnect(c0, up)
    IN  IF c # "live"
        THEN MgrResult(c, doms, fs, FALSE, "ConnectionFailure", -1, <<>>)
        ELSE IF name \notin DOMAIN doms
        THEN MgrResult(c, doms, fs, FALSE, "NotFound", -1, <<"lookupByName">>)
        ELSE IF fault = "destroy_raise" \/ ~isActive(doms[name])
        THEN MgrResult(c, doms, fs, FALSE, "HypervisorError", -1, <<"lookupByName", "destroy">>)
        ELSE delete_undefine_rm(c, [doms EXCEPT ![name].state = VIR_DOMAIN_SHUTOFF],
                                fs, name, fault, <<"lookupByName", "destroy">>)

\* delete_vm: an active domain is force-powered off first, a domain that is
\* not active is left as it is.
delete_vm(c0, doms, fs, up, name, fault) ==
    LET c == reconnect(c0, up)
    IN  IF c # "live"
        THEN MgrResult(c, doms, fs, FALSE, "ConnectionFailure", -1, <<>>)
        ELSE IF name \notin DOMAIN doms
        THEN MgrResult(c, doms, fs, FALSE, "NotFound", -1, <<"lookupByName">>)
        ELSE IF isActive(doms[name])
        THEN IF fault = "destroy_raise"
             THEN MgrResult(c, doms, fs, FALSE, "HypervisorError", -1,
                            <<"lookupByName", "isActive", "destroy">>)
             ELSE delete_undefine_rm(c, [doms EXCEPT ![name].state = VIR_DOMAIN_SHUTOFF],
                                     fs, name, fault, <<"lookupByName", "isActive", "destroy">>)
        ELSE delete_undefine_rm(c, doms, fs, name, fault, <<"lookupByName", "isActive">>)

\* get_vm_vnc_port: the port of the descriptor of the named domain; None
\* without a handle or when the lookup fails.
get_vm_vnc_port(c0, doms, up, name) ==
    LET c == reconnect(c0, up)
    IN  [conn |-> c,
         port |-> IF c # "live" THEN None
                  ELSE IF name \notin DOMAIN doms THEN None
                  ELSE get_vnc_port(doms[name])]

\* list_vms: one entry per active domain, then one per defined domain not
\* listed yet; an unreachable hypervisor gives the empty list.
list_vms(c0, doms, up) ==
    LET c == reconnect(c0, up)
    IN  [conn |-> c,
         vms |-> IF c # "live" THEN {}
                 ELSE {get_domain_details(n, doms[n]) : n \in DOMAIN doms}]

----------------------------------------------------------------------------
(* Texts.  A text that the program takes apart is a sequence of character  *)
(* codes; names and messages are strings.                                  *)

\* str(n) of a natural number, as character codes ("0" is 48).
RECURSIVE DecimalText(_)
DecimalText(n) ==
    IF n < 10 THEN <<48 + n>> ELSE Append(DecimalText(n \div 10), 48 + (n % 10))

DigitChars == <<"0", "1", "2", "3", "4", "5", "6", "7", "8", "9">>

\* The string of a text of digits.
RECURSIVE DigitString(_)
DigitString(codes) ==
    IF codes = <<>> THEN ""
    ELSE DigitChars[Head(codes) - 47] \o DigitString(Tail(codes))

\* int(text) of a text of digits.
RECURSIVE ParseInt(_)
ParseInt(codes) ==
    IF codes = <<>> THEN 0
    ELSE 10 * ParseInt(SubSeq(codes, 1, Len(codes) - 1)) + (codes[Len(codes)] - 48)

\* The base64 alphabet, then the padding character.
B64Chars ==
    <<
      "A", "B", "C", "D", "E", "F", "G", "H", "I", "J", "K", "L", "M",
      "N", "O", "P", "Q", "R", "S", "T", "U", "V", "W", "X", "Y", "Z",
      "a", "b", "c", "d", "e", "f", "g", "h", "i", "j", "k", "l", "m",
      "n", "o", "p", "q", "r", "s", "t", "u", "v", "w", "x", "y", "z",
      "0", "1", "2", "3", "4", "5", "6", "7", "8", "9", "+", "/", "="
    >>

\* base64.b64encode: three bytes give four sextets; a last group of one or
\* two bytes is padded (sextet 64 stands for "=").
RECURSIVE b64encode(_)
b64encode(bytes) ==
    IF Len(bytes) = 0 THEN <<>>
    ELSE IF Len(bytes) = 1
    THEN <<bytes[1] \div 4, (bytes[1] % 4) * 16, 64, 64>>
    ELSE IF Len(bytes) = 2
    THEN <<bytes[1] \div 4, (bytes[1] % 4) * 16 + bytes[2] \div 16,
           (bytes[2] % 16) * 4, 64>>
    ELSE <<bytes[1] \div 4, (bytes[1] % 4) * 16 + bytes[2] \div 16,
           (bytes[2] % 16) * 4 + bytes[3] \div 64, bytes[3] % 64>>
         \o b64encode(SubSeq(bytes, 4, Len(bytes)))

\* The encoded text with its padding left in place.
keep_pad(sx) == sx

\* str.rstrip('='), on sextets.
RECURSIVE rstrip_pad(_)
rstrip_pad(sx) ==
    IF sx # <<>> /\ sx[Len(sx)] = 64 THEN rstrip_pad(SubSeq(sx, 1, Len(sx) - 1)) ELSE sx

RECURSIVE B64String(_)
B64String(sx) ==
    IF sx = <<>> THEN "" ELSE B64Chars[Head(sx) + 1] \o B64String(Tail(sx))

\* The bytes '\x00c\x00postgresql' that strtobase64 appends.
suffix_bytes == <<0, 99, 0, 112, 111, 115, 116, 103, 114, 101, 115, 113, 108>>

\* strtobase64: the link fragment of a connection identifier.
strtobase64(id) == B64String(rstrip_pad(b64encode(id \o suffix_bytes)))

GUAC_IP == "192.168.3.132:8443"

\* The deep link grant_user_permissions composes.
ClientUrl(id) == "https://" \o GUAC_IP \o "/" \o "#/client/" \o strtobase64(id)

----------------------------------------------------------------------------
(* Gateway provisioning transaction (vms/guacamodel.py).  The gateway is   *)
(* its users, its connections by identifier and its READ permissions.      *)

\* GuacamoleClient.__init__: no client reference, not initialized.
GuacUnset == [guacamole |-> "none", is_initialized |-> FALSE]

\* The test both methods and __exit__ make of the client reference.
SessionOf(client) ==
    IF client.guacamole # "none" /\ client.is_initialized THEN "active" ELSE "inactive"

\* __enter__: logs in and sets the reference; a failed login clears it and
\* re-raises.
guac_enter(client, fails) ==
    IF SessionOf(client) = "active"
    THEN [client |-> client, raised |-> FALSE]
    ELSE IF fails
    THEN [client |-> [guacamole |-> "none", is_initialized |-> FALSE], raised |-> TRUE]
    ELSE [client |-> [guacamole |-> "client", is_initialized |-> TRUE], raised |-> FALSE]

\* __exit__ that leaves the client reference in place.
guac_exit_keep(client) == client

\* __exit__: releases the reference of an active client; exceptions of the
\* block propagate.
guac_exit(client) ==
    IF SessionOf(client) = "active"
    THEN [guacamole |-> "none", is_initialized |-> FALSE]
    ELSE client

GwResult(users, conns, perms, next, outcome, msg, data, steps) ==
    [users |-> users, conns |-> conns, perms |-> perms, next |-> next,
     outcome |-> outcome, msg |-> msg, data |-> data, steps |-> steps]

GrantFaults ==
    {"add_user_transport", "add_connection_http", "add_connection_noid",
     "perm_non204", "perm_http"}

\* The error envelopes of the gateway: the recoverable one, and any other.
UserExistsEnvelope ==
    [type |-> "BAD_REQUEST", MESSAGE |-> "User already exists."]

OtherEnvelope ==
    [type |-> "INTERNAL_ERROR", MESSAGE |-> "Unexpected internal error."]

\* "already exists" in MESSAGE
MentionsAlreadyExists(message) == message = "User already exists."

\* e.response.text: requests decodes the body, so the handler holds a str.
ResponseText(envelope) == [kind |-> "str", body |-> envelope]

\* _parse_context: decodes bytes and returns MESSAGE for the user-exists
\* envelope, None for any other; .decode of a str raises AttributeError.
parse_context(rawdata) ==
    IF rawdata.kind # "bytes"
    THEN [raised |-> TRUE, value |-> None]
    ELSE IF rawdata.body.type = "BAD_REQUEST" /\ MentionsAlreadyExists(rawdata.body.MESSAGE)
    THEN [raised |-> FALSE, value |-> PyStr(rawdata.body.MESSAGE)]
    ELSE [raised |-> FALSE, value |-> None]

\* The except requests.exceptions.HTTPError branch of
\* grant_user_permissions: the message is what _parse_context returns, and
\* an exception of _parse_context leaves the method.
grant_http_error(users, conns, perms, next, envelope, steps) ==
    LET parsed == parse_context(ResponseText(envelope))
    IN  IF parsed.raised
        THEN GwResult(users, conns, perms, next, "raise", PyStr("AttributeError"), None, steps)
        ELSE GwResult(users, conns, perms, next, "fail", parsed.value, None, steps)

\* Step 3 and 4 that answer success without the permission being stored.
grant_permission_link_unpermitted(users, conns, perms, next, username, vncport, id, fault, steps) ==
    IF fault = "perm_http"
    THEN grant_http_error(users, conns, perms, next, OtherEnvelope, Append(steps, "grant_permission"))
    ELSE IF fault = "perm_non204"
    THEN GwResult(users, conns, perms, next, "fail", PyStr("PermissionStatus"), None,
                  Append(steps, "grant_permission"))
    ELSE GwResult(users, conns, perms, next, "ok", PyStr("Success"),
                  [link |-> ClientUrl(id), connid |-> id, vncport |-> vncport],
                  Append(steps, "grant_permission"))

\* Step 3 and 4 of grant_user_permissions: READ permission on the new
\* connection, then the link.
grant_permission_link(users, conns, perms, next, username, vncport, id, fault, steps) ==
    IF fault = "perm_http"
    THEN grant_http_error(users, conns, perms, next, OtherEnvelope, Append(steps, "grant_permission"))
    ELSE IF fault = "perm_non204"
    THEN GwResult(users, conns, perms, next, "fail", PyStr("PermissionStatus"), None,
                  Append(steps, "grant_permission"))
    ELSE GwResult(users, conns, perms \cup {<<username, ParseInt(id)>>}, next, "ok",
                  PyStr("Success"),
                  [link |-> ClientUrl(id), connid |-> id, vncport |-> vncport],
                  Append(steps, "grant_permission"))

\* Step 2 of grant_user_permissions: the connection vm_<username>.
grant_add_connection(users, conns, perms, next, username, vncport, maxconn, fault, steps) ==
    IF fault = "add_connection_http"
    THEN grant_http_error(users, conns, perms, next, OtherEnvelope, Append(steps, "add_connection"))
    ELSE LET created == (next :> [name |-> "vm_" \o username, port |-> vncport,
                                  maxconn |-> maxconn]) @@ conns
         IN  IF fault = "add_connection_noid"
             THEN GwResult(users, created, perms, next + 1, "fail", PyStr("NoIdentifier"),
                           None, Append(steps, "add_connection"))
             ELSE grant_permission_link(users, created, perms, next + 1, username, vncport,
                                        DecimalText(next), fault,
                                        Append(steps, "add_connection"))

\* grant_user_permissions: add the user, add the connection, grant READ,
\* compose the link.  A gateway that already has the user answers the first
\* request with the user-exists envelope.
grant_user_permissions(sess, users, conns, perms, next, username, vncport, maxconn, fault) ==
    IF sess # "active"
    THEN GwResult(users, conns, perms, next, "fail", PyStr("NotInitialized"), None, <<>>)
    ELSE IF fault = "add_user_transport"
    THEN GwResult(users, conns, perms, next, "fail", PyStr("ConnectionError"), None, <<"add_user">>)
    ELSE IF username \in users
    THEN grant_http_error(users, conns, perms, next, UserExistsEnvelope, <<"add_user">>)
    ELSE grant_add_connection(users \cup {username}, conns, perms, next, username, vncport,
                              maxconn, fault, <<"add_user">>)

RevokeFaults == {"del_conn_fail", "del_user_fail"}

\* The gateway's objects after a connection (a user) is deleted: its
\* permissions go with it.
DeleteConnection(conns, id) == [i \in DOMAIN conns \ {id} |-> conns[i]]

PermsWithoutConnection(perms, id) == {p \in perms : p[2] # id}

PermsWithoutUser(perms, username) == {p \in perms : p[1] # username}

\* delete_user_and_vm that goes on to the user after the deletion of the
\* connection failed.
delete_user_and_vm_regardless(sess, users, conns, perms, next, name, connid, fault) ==
    IF sess # "active"
    THEN GwResult(users, conns, perms, next, "fail", PyStr("NotInitialized"), None, <<>>)
    ELSE IF fault = "del_conn_fail" \/ connid \notin DOMAIN conns
    THEN GwResult(users \ {name}, conns, PermsWithoutUser(perms, name), next, "fail",
                  PyStr("DeleteFailed"), None, <<"delete_connection", "delete_user">>)
    ELSE LET conns1 == DeleteConnection(conns, connid)
             perms1 == PermsWithoutConnection(perms, connid)
         IN  IF fault = "del_user_fail" \/ name \notin users
             THEN GwResult(users, conns1, perms1, next, "fail", PyStr("DeleteFailed"), None,
                           <<"delete_connection", "delete_user">>)
             ELSE GwResult(users \ {name}, conns1, PermsWithoutUser(perms1, name), next, "ok",
                           PyStr("Delete Successfully"), None,
                           <<"delete_connection", "delete_user">>)

\* delete_user_and_vm: delete the connection, then the user; any exception
\* of either request gives the one failure result.
delete_user_and_vm(sess, users, conns, perms, next, name, connid, fault) ==
    IF sess # "active"
    THEN GwResult(users, conns, perms, next, "fail", PyStr("NotInitialized"), None, <<>>)
    ELSE IF fault = "del_conn_fail" \/ connid \notin DOMAIN conns
    THEN GwResult(users, conns, perms, next, "fail", PyStr("DeleteFailed"), None,
                  <<"delete_connection">>)
    ELSE LET conns1 == DeleteConnection(conns, connid)
             perms1 == PermsWithoutConnection(perms, connid)
         IN  IF fault = "del_user_fail" \/ name \notin users
             THEN GwResult(users, conns1, perms1, next, "fail", PyStr("DeleteFailed"), None,
                           <<"delete_connection", "delete_user">>)
             ELSE GwResult(users \ {name}, conns1, PermsWithoutUser(perms1, name), next, "ok",
                           PyStr("Delete Successfully"), None,
                           <<"delete_connection", "delete_user">>)

----------------------------------------------------------------------------
(* Record store (database.py).  The table is keyed by the unique name; a   *)
(* row read by get_all_vm_records is the tuple of the selected columns.    *)

\* name = ? of an SQL statement: the name column has TEXT affinity, so an
\* integer parameter is compared as its decimal text; NULL equals nothing.
SqlNameEq(name, param) ==
    CASE param.t = "int" -> name = DigitString(DecimalText(param.v))
      [] param.t = "str" -> name = param.v
      [] OTHER -> FALSE

\* add_vm_record as INSERT OR REPLACE: a row with the name is overwritten.
add_vm_record_replace(recs, name, status, vnc_port, link, connid) ==
    [ok |-> TRUE,
     records |-> [n \in DOMAIN recs \cup {name} |->
                     IF n = name
                     THEN [connid |-> ParseInt(connid), status |-> status,
                           vnc_port |-> vnc_port, link |-> link]
                     ELSE recs[n]]]

\* add_vm_record: INSERT; the UNIQUE name makes a second row with the name
\* an IntegrityError.  The connid column has INTEGER affinity.
add_vm_record(recs, name, status, vnc_port, link, connid) ==
    IF name \in DOMAIN recs
    THEN [ok |-> FALSE, records |-> recs]
    ELSE [ok |-> TRUE,
          records |-> (name :> [connid |-> ParseInt(connid), status |-> status,
                                vnc_port |-> vnc_port, link |-> link]) @@ recs]

\* update_vm_status: UPDATE vms SET status = ? WHERE name = ?
update_vm_status(recs, param, status) ==
    [n \in DOMAIN recs |->
        IF SqlNameEq(n, param) THEN [recs[n] EXCEPT !.status = status] ELSE recs[n]]

\* delete_vm_record: DELETE FROM vms WHERE name = ?
delete_vm_record(recs, param) ==
    [n \in {m \in DOMAIN recs : ~SqlNameEq(m, param)} |-> recs[n]]

\* get_all_vm_records: SELECT connid, name, template_name, status, ...
\* (the columns after status are not read by the front end's index).
get_all_vm_records(recs) ==
    {<<PyInt(recs[n].connid), PyStr(n), PyStr(TEMPLATE_NAME), PyStr(recs[n].status)>> :
        n \in DOMAIN recs}

\* row[i] of a Python tuple (indices from 0).
PyIndex(row, i) == row[i + 1]

\* dict.get(key): a key of another type than the keys of the dict is absent.
DictGet(map, key) ==
    IF key.t = "str" /\ key.v \in DOMAIN map THEN map[key.v] ELSE None

----------------------------------------------------------------------------
(* Service endpoints (libvirt_server.py)                                   *)

HTTP_200_OK == 200
HTTP_201_CREATED == 201
HTTP_400_BAD_REQUEST == 400
HTTP_500_INTERNAL_SERVER_ERROR == 500

NoMgr == [called |-> FALSE, ok |-> FALSE, msg |-> "", vnc_port |-> -1, steps |-> <<>>]
NoGw ==
    [called |-> FALSE, outcome |-> "", msg |-> None, data |-> None, steps |-> <<>>,
     client |-> GuacUnset]

MgrView(m) ==
    [called |-> TRUE, ok |-> m.ok, msg |-> m.msg, vnc_port |-> m.vnc_port, steps |-> m.steps]

\* What a method called inside the with block did, and the client after the
\* block was left (by its return or by its exception).
GwView(g) ==
    [called |-> TRUE, outcome |-> g.outcome, msg |-> g.msg, data |-> g.data, steps |-> g.steps,
     client |-> guac_exit(guac_enter(GuacUnset, FALSE).client)]

\* The with statement whose __enter__ raised: the block never ran.
GwEnterFailed == [NoGw EXCEPT !.client = guac_enter(GuacUnset, TRUE).client]

\* The state the service works on.
World(c, doms, fs, users, conns, perms, next) ==
    [conn |-> c, domains |-> doms, files |-> fs, gwUsers |-> users, gwConns |-> conns,
     gwPerms |-> perms, nextConnId |-> next]

AfterMgr(w, m) == [w EXCEPT !.conn = m.conn, !.domains = m.domains, !.files = m.files]

AfterGw(w, g) ==
    [w EXCEPT !.gwUsers = g.users, !.gwConns = g.conns, !.gwPerms = g.perms,
              !.nextConnId = g.next]

Response(w, http, success, data, mgr, gw) ==
    [world |-> w, http |-> http, success |-> success, data |-> data, mgr |-> mgr, gw |-> gw]

\* The name status is assigned in create_vm and in delete_vm (status, data =
\* ...), so it is local to both: status.HTTP_... read before the assignment
\* raises UnboundLocalError, which the server answers with 500.
unbound_status(intended_status) == HTTP_500_INTERNAL_SERVER_ERROR

\* The except Exception clause that closes create_vm: it also catches the
\* HTTPException the try block raises itself, whatever its status.
create_vm_except(raised_status) == HTTP_500_INTERNAL_SERVER_ERROR

\* create_vm from the return of create_vm_from_template on: a failure is
\* raised, a success goes on to Grant inside a gateway session.
create_vm_after(w, m, name, fault) ==
    LET w1 == AfterMgr(w, m)
    IN  IF ~m.ok
        THEN Response(w1, create_vm_except(unbound_status(HTTP_400_BAD_REQUEST)), FALSE, None,
                      MgrView(m), NoGw)
        ELSE IF guac_enter(GuacUnset, fault = "guac_enter").raised
        THEN Response(w1, create_vm_except(HTTP_500_INTERNAL_SERVER_ERROR), FALSE, None,
                      MgrView(m), GwEnterFailed)
        ELSE LET g == grant_user_permissions(SessionOf(guac_enter(GuacUnset, FALSE).client),
                                             w1.gwUsers, w1.gwConns, w1.gwPerms,
                                             w1.nextConnId, name, m.vnc_port,
                                             DEFAULT_MAXCONN, fault)
                 w2 == AfterGw(w1, g)
             IN  IF g.outcome = "raise"
                 THEN Response(w2, create_vm_except(HTTP_500_INTERNAL_SERVER_ERROR), FALSE,
                               None, MgrView(m), GwView(g))
                 ELSE IF g.outcome = "ok"
                 THEN Response(w2, HTTP_201_CREATED, TRUE, g.data, MgrView(m), GwView(g))
                 ELSE Response(w2, HTTP_201_CREATED, FALSE, None, MgrView(m), GwView(g))

\* create_vm (POST /api/v1/vms): Create, then Grant inside a gateway session.
create_vm(w, up, base, name, fault) ==
    create_vm_after(w, create_vm_from_template(w.conn, w.domains, w.files, up, base, name,
                                               fault),
                    name, fault)

\* start_vm, stop_vm, destroy_vm (POST .../start, /stop, /destroy): the
\* manager's result, a failure as 400.
action_response(w, m) ==
    IF m.ok
    THEN Response(AfterMgr(w, m), HTTP_200_OK, TRUE, None, MgrView(m), NoGw)
    ELSE Response(AfterMgr(w, m), HTTP_400_BAD_REQUEST, FALSE, None, MgrView(m), NoGw)

\* list_vms (GET /api/v1/vms): the manager's list in a 200 answer; the
\* manager raises nothing, so the 500 of the except clause is never sent.
server_list_vms(c0, doms, up) ==
    LET listing == list_vms(c0, doms, up)
    IN  [conn |-> listing.conn, http |-> HTTP_200_OK, vms |-> listing.vms]

\* delete_vm (DELETE /api/v1/vms): Delete, then Revoke inside a gateway
\* session; a failed Delete raises before any gateway request.
server_delete_vm(w, up, name, connid, fault) ==
    LET m == delete_vm(w.conn, w.domains, w.files, up, name, fault)
        w1 == AfterMgr(w, m)
    IN  IF ~m.ok
        THEN Response(w1, unbound_status(HTTP_400_BAD_REQUEST), FALSE, None, MgrView(m), NoGw)
        ELSE IF guac_enter(GuacUnset, fault = "guac_enter").raised
        THEN Response(w1, HTTP_500_INTERNAL_SERVER_ERROR, FALSE, None, MgrView(m),
                      GwEnterFailed)
        ELSE LET g == delete_user_and_vm(SessionOf(guac_enter(GuacUnset, FALSE).client),
                                         w1.gwUsers, w1.gwConns, w1.gwPerms,
                                         w1.nextConnId, name, connid, fault)
             IN  Response(AfterGw(w1, g), HTTP_200_OK, g.outcome = "ok", None,
                          MgrView(m), GwView(g))

----------------------------------------------------------------------------
(* Front end (app3.py)                                                     *)

\* {vm['name']: vm for vm in libvirt_vms_data}
libvirt_vms_map(vms) ==
    [n \in {v.name : v \in vms} |-> CHOOSE v \in vms : v.name = n]

\* The body of the loop of index for one row: the row's first column is
\* looked up in the hypervisor's enumeration; a hit with a status other
\* than the row's third column is written through, a miss deletes.
reconcile_row(recs, map, vm_record) ==
    LET vm_name_db == PyIndex(vm_record, 0)
        libvirt_vm_info == DictGet(map, vm_name_db)
    IN  IF libvirt_vm_info # None
        THEN IF PyStr(libvirt_vm_info.status) # PyIndex(vm_record, 2)
             THEN update_vm_status(recs, vm_name_db, libvirt_vm_info.status)
             ELSE recs
        ELSE delete_vm_record(recs, vm_name_db)

RECURSIVE reconcile(_, _, _)
reconcile(recs, map, rows) ==
    IF rows = {} THEN recs
    ELSE LET vm_record == CHOOSE r \in rows : TRUE
         IN  reconcile(reconcile_row(recs, map, vm_record), map, rows \ {vm_record})

\* index (GET /): one reconciliation pass.  When the service cannot be
\* reached the enumeration is taken as empty.
index(recs, c, doms, up, fault) ==
    LET answer == IF fault = "backend_down"
                  THEN [conn |-> c, http |-> HTTP_500_INTERNAL_SERVER_ERROR, vms |-> {}]
                  ELSE server_list_vms(c, doms, up)
        vms == IF answer.http >= 400 THEN {} ELSE answer.vms
    IN  [conn |-> answer.conn,
         records |-> reconcile(recs, libvirt_vms_map(vms), get_all_vm_records(recs))]

\* create_vm_page (POST /create_vm): the record is added when the service
\* answers success.
create_vm_page(recs, resp, vm_name) ==
    IF resp.http >= 400
    THEN [records |-> recs, db |-> "none"]
    ELSE IF resp.success
    THEN LET added == add_vm_record(recs, vm_name, ST_RUNNING_CN, resp.data.vncport,
                                    resp.data.link, resp.data.connid)
         IN  [records |-> added.records,
              db |-> IF added.ok THEN "inserted" ELSE "integrity_error"]
    ELSE [records |-> recs, db |-> "none"]

\* manage_vm_action (POST /manage_vm/<vm_name>): what a success of the
\* service does to the record store.
manage_vm_action(recs, resp, vm_name, action) ==
    IF resp.http >= 400 \/ ~resp.success
    THEN [records |-> recs, db |-> "none"]
    ELSE CASE action = "start" ->
                [records |-> update_vm_status(recs, PyStr(vm_name), ST_RUNNING_CN), db |-> "updated"]
           [] action = "stop" ->
                [records |-> update_vm_status(recs, PyStr(vm_name), ST_STOPPING_CN), db |-> "updated"]
           [] action = "destroy" ->
                [records |-> update_vm_status(recs, PyStr(vm_name), ST_SHUTOFF_CN), db |-> "updated"]
           [] action = "delete" ->
                [records |-> delete_vm_record(recs, PyStr(vm_name)), db |-> "deleted"]

----------------------------------------------------------------------------
(* State machine *)

NoDomains == [n \in {} |-> DefinedDomain("", -1)]

\* No Create call and no list view is in flight.
NotCreating == [pc |-> "idle", port |-> -1, steps |-> <<>>, active |-> {}]
NoPass == [pc |-> "idle", rows |-> {}, map |-> <<>>, gone |-> {}, back |-> {}]
NoConns == [i \in {} |-> [name |-> "", port |-> -1, maxconn |-> 0]]
NoRecords == [n \in {} |-> [connid |-> 0, status |-> "", vnc_port |-> -1, link |-> ""]]

\* What a request found before it ran.
Pre(name) ==
    [known |-> name \in DOMAIN domains,
     active |-> name \in DOMAIN domains /\ isActive(domains[name]),
     overlay |-> name \in files,
     base |-> baseImage,
     up |-> hvUp,
     conn |-> conn,
     user |-> name \in gwUsers,
     record |-> name \in DOMAIN records]

Last(op, name, fault, resp, db) ==
    [op |-> op, name |-> name, fault |-> fault, pre |-> Pre(name), mgr |-> resp.mgr,
     gw |-> resp.gw, http |-> resp.http, success |-> resp.success, db |-> db]

NoResponse == [mgr |-> NoMgr, gw |-> NoGw, http |-> 0, success |-> FALSE]

CurrentWorld == World(conn, domains, files, gwUsers, gwConns, gwPerms, nextConnId)

Becomes(w) ==
    /\ conn' = w.conn
    /\ domains' = w.domains
    /\ files' = w.files
    /\ gwUsers' = w.gwUsers
    /\ gwConns' = w.gwConns
    /\ gwPerms' = w.gwPerms
    /\ nextConnId' = w.nextConnId

Init ==
    /\ hvUp = TRUE
    /\ conn = connect("none", TRUE)
    /\ domains = NoDomains
    /\ files = {}
    /\ baseImage = TRUE
    /\ gwUsers = {}
    /\ gwConns = NoConns
    /\ gwPerms = {}
    /\ nextConnId = 1
    /\ records = NoRecords
    /\ last = [op |-> "init", name |-> "", fault |-> "none", pre |-> Pre(""), mgr |-> NoMgr,
               gw |-> NoGw, http |-> 0, success |-> FALSE, db |-> "none"]
    /\ requests = 0
    /\ creating = [n \in Names |-> NotCreating]
    /\ view = NoPass

\* One more request or environment step, while the run is followed.
Tick ==
    /\ requests < MaxRequests
    /\ requests' = requests + 1
    /\ UNCHANGED <<creating, view>>

\* A fault is injected only at a point the request reaches: the request
\* with the fault differs from the request without it.
Reached(fault, resp, undisturbed) == fault = "none" \/ resp # undisturbed

CreateRequestFaults == {"none", "guac_enter"} \cup CreateFaults \cup GrantFaults

\* A creation request of the front end, through the service.
CreateRequest(name, fault) ==
    /\ Tick
    /\ nextConnId <= MaxConnId
    /\ LET resp == create_vm(CurrentWorld, hvUp, baseImage, name, fault)
           page == create_vm_page(records, resp, name)
       IN  /\ Reached(fault, resp, create_vm(CurrentWorld, hvUp, baseImage, name, "none"))
           /\ Becomes(resp.world)
           /\ records' = page.records
           /\ last' = Last("create", name, fault, resp, page.db)
    /\ UNCHANGED <<hvUp, baseImage>>

ActionFaults == {"none", "call_raise"}

StartRequest(name, fault) ==
    /\ Tick
    /\ LET resp == action_response(CurrentWorld,
                                   start_vm(conn, domains, files, hvUp, name, fault))
           page == manage_vm_action(records, resp, name, "start")
       IN  /\ Reached(fault, resp, action_response(CurrentWorld,
                                   start_vm(conn, domains, files, hvUp, name, "none")))
           /\ Becomes(resp.world)
           /\ records' = page.records
           /\ last' = Last("start", name, fault, resp, page.db)
    /\ UNCHANGED <<hvUp, baseImage>>

StopRequest(name, fault) ==
    /\ Tick
    /\ LET resp == action_response(CurrentWorld,
                                   stop_vm(conn, domains, files, hvUp, name, fault))
           page == manage_vm_action(records, resp, name, "stop")
       IN  /\ Reached(fault, resp, action_response(CurrentWorld,
                                   stop_vm(conn, domains, files, hvUp, name, "none")))
           /\ Becomes(resp.world)
           /\ records' = page.records
           /\ last' = Last("stop", name, fault, resp, page.db)
    /\ UNCHANGED <<hvUp, baseImage>>

DestroyRequest(name, fault) ==
    /\ Tick
    /\ LET resp == action_response(CurrentWorld,
                                   destroy_vm(conn, domains, files, hvUp, name, fault))
           page == manage_vm_action(records, resp, name, "destroy")
       IN  /\ Reached(fault, resp, action_response(CurrentWorld,
                                   destroy_vm(conn, domains, files, hvUp, name, "none")))
           /\ Becomes(resp.world)
           /\ records' = page.records
           /\ last' = Last("destroy", name, fault, resp, page.db)
    /\ UNCHANGED <<hvUp, baseImage>>

DeleteRequestFaults == {"none", "guac_enter"} \cup DeleteFaults \cup RevokeFaults

\* A deletion request: the form carries the connid of the name's record.
DeleteRequest(name, fault) ==
    /\ Tick
    /\ name \in DOMAIN records
    /\ LET resp == server_delete_vm(CurrentWorld, hvUp, name, records[name].connid, fault)
           page == manage_vm_action(records, resp, name, "delete")
       IN  /\ Reached(fault, resp, server_delete_vm(CurrentWorld, hvUp, name,
                                                    records[name].connid, "none"))
           /\ Becomes(resp.world)
           /\ records' = page.records
           /\ last' = Last("delete", name, fault, resp, page.db)
    /\ UNCHANGED <<hvUp, baseImage>>

IndexFaults == {"none", "backend_down"}

\* A list-view read: one reconciliation pass.
IndexRequest(fault) ==
    /\ Tick
    /\ LET pass == index(records, conn, domains, hvUp, fault)
       IN  /\ conn' = pass.conn
           /\ records' = pass.records
           /\ last' = Last("index", "", fault, NoResponse,
                           IF pass.records = records THEN "none" ELSE "changed")
    /\ UNCHANGED <<hvUp, domains, files, baseImage, gwUsers, gwConns, gwPerms, nextConnId>>

(* Environment *)

EnvLast(op, name) == Last(op, name, "none", NoResponse, "none")

\* The hypervisor becomes unreachable: a handle that is open dies.
HypervisorDown ==
    /\ Tick
    /\ hvUp
    /\ hvUp' = FALSE
    /\ conn' = IF conn = "live" THEN "dead" ELSE conn
    /\ last' = EnvLast("env", "")
    /\ UNCHANGED <<domains, files, baseImage, gwUsers, gwConns, gwPerms, nextConnId, records>>

HypervisorUp ==
    /\ Tick
    /\ ~hvUp
    /\ hvUp' = TRUE
    /\ last' = EnvLast("env", "")
    /\ UNCHANGED <<conn, domains, files, baseImage, gwUsers, gwConns, gwPerms, nextConnId, records>>

\* The guest powers off: a running domain is shutting down, then shut off.
GuestPowerOff(name) ==
    /\ Tick
    /\ name \in DOMAIN domains
    /\ domains[name].state \in {VIR_DOMAIN_RUNNING, VIR_DOMAIN_SHUTDOWN}
    /\ domains' = [domains EXCEPT ![name].state =
                      IF @ = VIR_DOMAIN_RUNNING THEN VIR_DOMAIN_SHUTDOWN
                      ELSE VIR_DOMAIN_SHUTOFF]
    /\ last' = EnvLast("env", name)
    /\ UNCHANGED <<hvUp, conn, files, baseImage, gwUsers, gwConns, gwPerms, nextConnId, records>>

\* An administrator removes a domain with a direct command; its disk stays.
AdminUndefine(name) ==
    /\ Tick
    /\ name \in DOMAIN domains
    /\ domains' = Undefine(domains, name)
    /\ last' = EnvLast("env", name)
    /\ UNCHANGED <<hvUp, conn, files, baseImage, gwUsers, gwConns, gwPerms, nextConnId, records>>

\* An administrator removes a user at the gateway, with the permissions the
\* user held; the user's connections stay.
GatewayUserRemoved(name) ==
    /\ Tick
    /\ name \in gwUsers
    /\ gwUsers' = gwUsers \ {name}
    /\ gwPerms' = PermsWithoutUser(gwPerms, name)
    /\ last' = EnvLast("env", name)
    /\ UNCHANGED <<hvUp, conn, domains, files, baseImage, gwConns, nextConnId, records>>

\* The golden image is removed, or put back.
BaseImageChange ==
    /\ Tick
    /\ baseImage' = ~baseImage
    /\ last' = EnvLast("env", "")
    /\ UNCHANGED <<hvUp, conn, domains, files, gwUsers, gwConns, gwPerms, nextConnId, records>>

Next ==
    \/ \E name \in Names, fault \in CreateRequestFaults : CreateRequest(name, fault)
    \/ \E name \in Names, fault \in ActionFaults : StartRequest(name, fault)
    \/ \E name \in Names, fault \in ActionFaults : StopRequest(name, fault)
    \/ \E name \in Names, fault \in ActionFaults : DestroyRequest(name, fault)
    \/ \E name \in Names, fault \in DeleteRequestFaults : DeleteRequest(name, fault)
    \/ \E fault \in IndexFaults : IndexRequest(fault)
    \/ HypervisorDown
    \/ HypervisorUp
    \/ \E name \in Names : GuestPowerOff(name)
    \/ \E name \in Names : AdminUndefine(name)
    \/ \E name \in Names : GatewayUserRemoved(name)
    \/ BaseImageChange

Spec == Init /\ [][Next]_vars

----------------------------------------------------------------------------
(* Concurrent callers.  The front end serves its requests on threads and  *)
(* the manager is called by every worker of the service (and by the       *)
(* threads of the legacy front end, app.py), so a Create and a list view   *)
(* advance in steps between which other requests run.  A Create has three *)
(* steps: up to the clone, the port probe, and the definition and start    *)
(* with the grant and the record; a list view has three: the read of the   *)
(* records, the enumeration, and the loop.                                 *)

\* Steps of concurrent callers in one behaviour.
MaxSteps == 10

Step ==
    /\ requests < MaxSteps
    /\ requests' = requests + 1

\* Names whose domain is active.
ActiveNames == {n \in DOMAIN domains : isActive(domains[n])}

\* A Create call starts and runs up to the port probe; a failure before the
\* probe is raised by the endpoint and ends the request.
CreateClone(name) ==
    /\ Step
    /\ creating[name].pc = "idle"
    /\ LET m == create_until_probe(conn, domains, files, hvUp, baseImage, name, "none")
           resp == create_vm_after(CurrentWorld, m, name, "none")
       IN  IF m.ok
           THEN /\ Becomes(AfterMgr(CurrentWorld, m))
                /\ creating' = [creating EXCEPT ![name] =
                                   [pc |-> "cloned", port |-> -1, steps |-> m.steps,
                                    active |-> {}]]
                /\ last' = Last("create_clone", name, "none", NoResponse, "none")
           ELSE /\ Becomes(resp.world)
                /\ creating' = creating
                /\ last' = Last("create", name, "none", resp, "none")
    /\ UNCHANGED <<hvUp, baseImage, records, view>>

\* The port probe of a Create call in flight.
CreateProbe(name) ==
    /\ Step
    /\ creating[name].pc = "cloned"
    /\ creating' = [creating EXCEPT ![name] =
                       [pc |-> "probed",
                        port |-> ProbePort(VNC_PORT_START, Listeners(domains)),
                        steps |-> Append(creating[name].steps, "probe"),
                        active |-> ActiveNames]]
    /\ last' = Last("create_probe", name, "none", NoResponse, "none")
    /\ UNCHANGED <<hvUp, conn, domains, files, baseImage, gwUsers, gwConns, gwPerms,
                   nextConnId, records, view>>

\* The rest of a Create call in flight: the domain is defined with the
\* probed port and started, the endpoint asks the gateway, the front end
\* adds the record.
CreateDefineStart(name) ==
    /\ Step
    /\ creating[name].pc = "probed"
    /\ nextConnId <= MaxConnId
    /\ LET m == create_define_start(conn, domains, files, name, "none",
                                    creating[name].port, creating[name].steps)
           resp == create_vm_after(CurrentWorld, m, name, "none")
           page == create_vm_page(records, resp, name)
       IN  /\ Becomes(resp.world)
           /\ records' = page.records
           /\ last' = Last("create", name, "none", resp, page.db)
           /\ creating' = [creating EXCEPT ![name] =
                              [pc |-> IF m.ok THEN "done" ELSE "idle",
                               port |-> m.vnc_port, steps |-> m.steps,
                               active |-> creating[name].active]]
           /\ view' = IF view.pc # "idle" /\ name \in view.gone /\ page.db = "inserted"
                      THEN [view EXCEPT !.back = @ \cup {name}]
                      ELSE view
    /\ UNCHANGED <<hvUp, baseImage>>

\* A deletion request of another caller, from the front end to the record.
DeleteBetween(name) ==
    /\ Step
    /\ name \in DOMAIN records
    /\ creating[name].pc \in {"idle", "done"}
    /\ LET resp == server_delete_vm(CurrentWorld, hvUp, name, records[name].connid, "none")
           page == manage_vm_action(records, resp, name, "delete")
       IN  /\ Becomes(resp.world)
           /\ records' = page.records
           /\ last' = Last("delete", name, "none", resp, page.db)
           /\ view' = IF view.pc # "idle" /\ page.db = "deleted"
                      THEN [view EXCEPT !.gone = @ \cup {name}]
                      ELSE view
    /\ creating' = [creating EXCEPT ![name] = NotCreating]
    /\ UNCHANGED <<hvUp, baseImage>>

\* index, first step: vms_from_db = get_all_vm_records().
PassRead ==
    /\ Step
    /\ view.pc = "idle"
    /\ view' = [NoPass EXCEPT !.pc = "read", !.rows = get_all_vm_records(records)]
    /\ last' = Last("pass_read", "", "none", NoResponse, "none")
    /\ UNCHANGED <<hvUp, conn, domains, files, baseImage, gwUsers, gwConns, gwPerms,
                   nextConnId, records, creating>>

\* index, second step: the enumeration is asked of the service.
PassList ==
    /\ Step
    /\ view.pc = "read"
    /\ LET answer == server_list_vms(conn, domains, hvUp)
       IN  /\ conn' = answer.conn
           /\ view' = [view EXCEPT !.pc = "listed",
                                   !.map = libvirt_vms_map(IF answer.http >= 400 THEN {}
                                                           ELSE answer.vms)]
    /\ last' = Last("pass_list", "", "none", NoResponse, "none")
    /\ UNCHANGED <<hvUp, domains, files, baseImage, gwUsers, gwConns, gwPerms, nextConnId,
                   records, creating>>

\* index, third step: the loop over the rows read in the first step, with
\* the enumeration of the second, on the record store as it is now.
PassAct ==
    /\ Step
    /\ view.pc = "listed"
    /\ records' = reconcile(records, view.map, view.rows)
    /\ view' = [view EXCEPT !.pc = "idle"]
    /\ last' = Last("pass_act", "", "none", NoResponse,
                    IF records' = records THEN "none" ELSE "changed")
    /\ UNCHANGED <<hvUp, conn, domains, files, baseImage, gwUsers, gwConns, gwPerms,
                   nextConnId, creating>>

NextConcurrent ==
    \/ \E name \in Names : CreateClone(name)
    \/ \E name \in Names : CreateProbe(name)
    \/ \E name \in Names : CreateDefineStart(name)
    \/ \E name \in Names : DeleteBetween(name)
    \/ PassRead
    \/ PassList
    \/ PassAct

SpecConcurrent == Init /\ [][NextConcurrent]_vars

----------------------------------------------------------------------------
(* Properties *)

\* The request made this call or ran this command.
Did(steps, step) == \E i \in 1..Len(steps) : steps[i] = step

\* The request got past this call or command: a later one follows it.
Passed(steps, step) == \E i \in 1..Len(steps) : steps[i] = step /\ i < Len(steps)

\* C1: a Create that returns success leaves a domain of that name defined in
\* the hypervisor, and a Status read right afterwards yields Running.
C1_CreateThenStatusRunning ==
    (last.op = "create" /\ last.mgr.ok) =>
        /\ ~last.pre.known
        /\ last.name \in DOMAIN domains
        /\ Status(domains, last.name) = "Running"

C1_Witness ==
    /\ last.op = "create"
    /\ last.mgr.ok
    /\ ~last.pre.known
    /\ last.pre.base
    /\ last.fault = "none"
    /\ Status(domains, last.name) = "Running"

\* C2 as stated: Create on a name known to the (reachable) hypervisor fails
\* with AlreadyExists, golden image present or absent, and changes no
\* overlay file, no domain and no gateway object.
C2_KnownNameAlwaysAlreadyExists ==
    [][(last'.op = "create" /\ last'.pre.known /\ last'.pre.up) =>
          /\ ~last'.mgr.ok
          /\ last'.mgr.msg = "AlreadyExists"
          /\ files' = files /\ domains' = domains
          /\ gwUsers' = gwUsers /\ gwConns' = gwConns /\ gwPerms' = gwPerms]_vars

\* C2 amended: Create on a name known to the reachable hypervisor always
\* fails and changes no overlay file, no domain and no gateway object; the
\* failure is AlreadyExists when the golden image is present and
\* TemplateMissing when it is absent, the image being checked first.
C2_KnownNameFailsWithoutEffect ==
    [][(last'.op = "create" /\ last'.pre.known /\ last'.pre.up) =>
          /\ ~last'.mgr.ok
          /\ last'.mgr.msg = (IF last'.pre.base THEN "AlreadyExists" ELSE "TemplateMissing")
          /\ ~last'.gw.called
          /\ files' = files /\ domains' = domains
          /\ gwUsers' = gwUsers /\ gwConns' = gwConns /\ gwPerms' = gwPerms]_vars

C2_Witness ==
    /\ last.op = "create"
    /\ last.pre.known
    /\ last.pre.up
    /\ last.pre.base
    /\ last.pre.overlay
    /\ last.mgr.msg = "AlreadyExists"
    /\ last.name \in files

\* C3: a Create that fails after the overlay was cloned (ownership change,
\* permission change, define or start failing) leaves no overlay file at
\* the path of the name.
C3_FailedCreateLeavesNoOverlay ==
    (last.op = "create" /\ ~last.mgr.ok /\ Passed(last.mgr.steps, "qemu_img_create")
        /\ last.fault # "start_raise_rm") =>
        last.name \notin files

\* C4: a Grant that finds its username on the gateway goes on: it creates
\* the connection, grants READ on it and returns success with a link.
C4_GrantContinuesForExistingUser ==
    (last.op = "create" /\ last.gw.called /\ last.pre.user /\ last.fault = "none") =>
        /\ last.gw.outcome = "ok"
        /\ Did(last.gw.steps, "add_connection")
        /\ Did(last.gw.steps, "grant_permission")

\* C5: whenever a record is deleted from the store, its gateway connection
\* is gone from the gateway, or the failure to delete it was returned.
C5_RecordDeletedAfterGatewayConnection ==
    [][\A n \in DOMAIN records :
          n \notin DOMAIN records' =>
              \/ records[n].connid \notin DOMAIN gwConns'
              \/ (last'.gw.called /\ last'.gw.outcome = "fail")]_vars

\* C6: every record points at a connection the gateway has.
C6_RecordsPointAtGatewayConnections ==
    \A n \in DOMAIN records : records[n].connid \in DOMAIN gwConns

\* C7: after a reconciliation pass no record is left whose name is absent
\* from the hypervisor's enumeration.
C7_PassRemovesAbsentRecords ==
    (last.op = "index" /\ last.fault = "none" /\ hvUp) =>
        \A n \in DOMAIN records : n \in DOMAIN domains

\* C8: a reconciliation pass never deletes the record of a VM the
\* hypervisor knows.
C8_PassKeepsKnownRecords ==
    [][last'.op = "index" =>
          \A n \in DOMAIN records : n \in DOMAIN domains => n \in DOMAIN records']_vars

\* C9: after a reconciliation pass every record left of a known domain
\* stores the normalized status the hypervisor reports for it.
C9_PassWritesStatusThrough ==
    (last.op = "index" /\ last.fault = "none" /\ hvUp) =>
        \A n \in DOMAIN records :
            n \in DOMAIN domains => records[n].status = Status(domains, n)

\* C10: Delete of a known domain, with no call or command failing, powers
\* the domain off first exactly when it is active, and ends the same way
\* for an active domain and one already off: success, the domain undefined,
\* its disk file removed.
C10_DeleteWhateverThePowerState ==
    (last.op = "delete" /\ last.pre.known /\ last.pre.up /\ last.fault = "none") =>
        /\ last.mgr.ok
        /\ last.mgr.msg = "Deleted"
        /\ Did(last.mgr.steps, "destroy") <=> last.pre.active
        /\ Did(last.mgr.steps, "undefine")
        /\ last.name \notin DOMAIN domains
        /\ last.name \notin files

C10_Witness ==
    /\ last.op = "delete"
    /\ last.pre.known
    /\ ~last.pre.active
    /\ last.pre.overlay
    /\ last.mgr.ok
    /\ ~Did(last.mgr.steps, "destroy")
    /\ Did(last.mgr.steps, "rm_force")
    /\ last.name \notin DOMAIN domains
    /\ last.name \notin files

\* C11: after a Delete that returns success the domain is no longer known
\* to the hypervisor (Status of the name is NotFound) and the disk file its
\* descriptor named no longer exists.
C11_DeletedDomainAndDiskAreGone ==
    (last.op = "delete" /\ last.mgr.called /\ last.mgr.ok) =>
        /\ last.pre.known
        /\ last.name \notin DOMAIN domains
        /\ Status(domains, last.name) = "NotFound"
        /\ last.name \notin files

C11_Witness ==
    /\ last.op = "delete"
    /\ last.mgr.ok
    /\ last.pre.known
    /\ last.pre.active
    /\ last.pre.overlay
    /\ Status(domains, last.name) = "NotFound"
    /\ last.name \notin files

\* C12: a Delete that undefined the domain and failed on the disk removal
\* returns PartialDeleteFailure with the domain gone, and the delete flow
\* goes on as for a VM that is gone: Revoke runs and the record is removed.
C12_PartialDeleteStillRevokes ==
    (last.op = "delete" /\ last.mgr.called /\ last.mgr.msg = "PartialDeleteFailure") =>
        /\ ~last.mgr.ok
        /\ last.name \notin DOMAIN domains
        /\ last.gw.called
        /\ last.name \notin DOMAIN records

\* C13: a Delete flow on a name the reachable hypervisor does not know goes
\* on to Revoke and to the removal of the record.
C13_DeleteOfUnknownNameCompletes ==
    (last.op = "delete" /\ last.mgr.called /\ last.pre.up /\ ~last.pre.known) =>
        /\ last.gw.called
        /\ (last.gw.outcome = "ok" => last.name \notin DOMAIN records)

\* C14: Start, Stop and Destroy on a reachable hypervisor: on an unknown
\* name they fail with NotFound and change nothing; on another hypervisor
\* error they fail with that error and change nothing; otherwise they
\* succeed and act on the named domain only (Start makes it running,
\* Destroy shut off, Stop only signals the guest).
C14_ActionsOnNamedDomainOnly ==
    [][(last'.op \in {"start", "stop", "destroy"} /\ last'.pre.up) =>
          /\ files' = files
          /\ gwUsers' = gwUsers /\ gwConns' = gwConns /\ gwPerms' = gwPerms
          /\ ~last'.pre.known =>
                /\ ~last'.mgr.ok /\ last'.mgr.msg = "NotFound"
                /\ last'.http = HTTP_400_BAD_REQUEST
                /\ domains' = domains /\ records' = records
          /\ (last'.pre.known /\ ~last'.mgr.ok) =>
                /\ last'.mgr.msg = "HypervisorError"
                /\ last'.http = HTTP_400_BAD_REQUEST
                /\ domains' = domains /\ records' = records
          /\ last'.mgr.ok =>
                /\ last'.pre.known
                /\ last'.http = HTTP_200_OK /\ last'.success
                /\ last'.mgr.msg = (CASE last'.op = "start" -> "Started"
                                      [] last'.op = "stop" -> "ShuttingDown"
                                      [] OTHER -> "Destroyed")
                /\ DOMAIN domains' = DOMAIN domains
                /\ \A n \in DOMAIN domains \ {last'.name} : domains'[n] = domains[n]
                /\ domains'[last'.name] =
                      [domains[last'.name] EXCEPT !.state =
                          CASE last'.op = "start" -> VIR_DOMAIN_RUNNING
                            [] last'.op = "stop" -> @
                            [] OTHER -> VIR_DOMAIN_SHUTOFF]]_vars

C14_Witness ==
    /\ last.op = "destroy"
    /\ last.mgr.ok
    /\ last.pre.active
    /\ Status(domains, last.name) = "Shut Off"
    /\ \E n \in DOMAIN domains : n # last.name /\ Status(domains, n) = "Running"

\* C15: no failure of Grant or Revoke leaves the method as an exception:
\* each is returned as a failure with a message.
C15_GatewayFailuresAreReturned ==
    last.gw.called =>
        /\ last.gw.outcome \in {"ok", "fail"}
        /\ last.gw.msg # None

\* C16: the console port of a successful Create is the lowest port from
\* 5900 upward on which no listener accepted connections when it was probed.
C16_LowestFreePort ==
    [][(last'.op = "create" /\ last'.mgr.ok) =>
          LET P == last'.mgr.vnc_port
              listening == Listeners(domains)
          IN  /\ P >= VNC_PORT_START
              /\ P \notin listening
              /\ \A q \in VNC_PORT_START..(P - 1) : q \in listening
              /\ domains'[last'.name].vnc_port = P]_vars

C16_Witness ==
    /\ last.op = "create"
    /\ last.mgr.ok
    /\ last.mgr.vnc_port > VNC_PORT_START
    /\ \E n \in DOMAIN domains :
          n # last.name /\ isActive(domains[n]) /\ domains[n].vnc_port = VNC_PORT_START

\* C17: no two domains the hypervisor knows, each created by a Create flow
\* that succeeded (it has its record), carry the same console port in their
\* descriptors.
C17_ConsolePortsDistinct ==
    \A n, m \in DOMAIN domains \cap DOMAIN records :
        n # m => domains[n].vnc_port # domains[m].vnc_port

\* Identifiers whose link is decoded: one, two and three digits.
MaxLinkId == 120

\* The fragment of the link of a connection id, as sextets.
Fragment(id) == rstrip_pad(b64encode(id \o suffix_bytes))

\* Re-padding of a fragment with "=" to a multiple of four characters.
repad(sx) == sx \o [i \in 1..((4 - (Len(sx) % 4)) % 4) |-> 64]

\* Base64 decoding of padded sextets.
RECURSIVE b64decode(_)
b64decode(sx) ==
    IF Len(sx) < 4 THEN <<>>
    ELSE LET b1 == sx[1] * 4 + sx[2] \div 16
             b2 == (sx[2] % 16) * 16 + sx[3] \div 4
             b3 == (sx[3] % 4) * 64 + sx[4]
         IN  IF sx[3] = 64 THEN <<b1>>
             ELSE IF sx[4] = 64 THEN <<b1, b2>>
             ELSE <<b1, b2, b3>> \o b64decode(SubSeq(sx, 5, Len(sx)))

\* The fragment of id has no trailing padding and decodes, re-padded, to
\* id followed by 0x00 'c' 0x00 'postgresql'.
LinkDecodes(id) ==
    LET frag == Fragment(id)
    IN  /\ frag # <<>>
        /\ frag[Len(frag)] # 64
        /\ b64decode(repad(frag)) = id \o <<0, 99, 0, 112, 111, 115, 116, 103, 114, 101, 115, 113, 108>>

LinkIdsDecode == \A n \in 1..MaxLinkId : LinkDecodes(DecimalText(n))

\* C18: the fragment of the link of every connection id decodes to the id
\* followed by the fixed suffix and carries no padding (id "42" among them),
\* and every link Grant returned and the front end stored is the base URL,
\* "#/client/" and the fragment of the record's connection id.
C18_LinkFragmentDecodes ==
    /\ LinkIdsDecode
    /\ (last.op = "create" /\ last.gw.called /\ last.gw.outcome = "ok") =>
          /\ LinkDecodes(last.gw.data.connid)
          /\ last.gw.data.link =
                "https://" \o GUAC_IP \o "/" \o "#/client/"
                    \o B64String(Fragment(last.gw.data.connid))
    /\ \A n \in DOMAIN records :
          records[n].link =
              "https://" \o GUAC_IP \o "/" \o "#/client/"
                  \o B64String(Fragment(DecimalText(records[n].connid)))

C18_Witness ==
    /\ last.op = "create"
    /\ last.gw.called
    /\ last.gw.outcome = "ok"
    /\ last.gw.data.connid = DecimalText(2)
    /\ last.name \in DOMAIN records
    /\ records[last.name].link = last.gw.data.link

\* C19: Revoke asks for the deletion of the connection first and of the
\* user second; when the connection is not deleted the user is not touched;
\* it returns success exactly when both were deleted, and the same failure
\* otherwise.
C19_RevokeConnectionThenUser ==
    [][(last'.op = "delete" /\ last'.gw.called) =>
          LET id == records[last'.name].connid
              steps == last'.gw.steps
          IN  /\ steps \in {<<"delete_connection">>, <<"delete_connection", "delete_user">>}
              /\ id \in DOMAIN gwConns' =>
                    /\ steps = <<"delete_connection">>
                    /\ gwUsers' = gwUsers /\ gwConns' = gwConns /\ gwPerms' = gwPerms
              /\ last'.gw.outcome = "ok" <=>
                    /\ steps = <<"delete_connection", "delete_user">>
                    /\ id \in DOMAIN gwConns /\ id \notin DOMAIN gwConns'
                    /\ last'.name \in gwUsers /\ last'.name \notin gwUsers'
              /\ last'.gw.outcome # "ok" =>
                    /\ last'.gw.outcome = "fail"
                    /\ last'.gw.msg = PyStr("DeleteFailed")
                    /\ ~last'.success]_vars

C19_Witness ==
    /\ last.op = "delete"
    /\ last.gw.called
    /\ last.gw.outcome = "fail"
    /\ last.gw.steps = <<"delete_connection">>
    /\ last.name \in gwUsers
    /\ last.name \in DOMAIN records
    /\ records[last.name].connid \in DOMAIN gwConns

\* C20: with the hypervisor unreachable Create, Start, Stop, Destroy and
\* Delete fail with ConnectionFailure, run no command, make no hypervisor
\* call on a domain and no gateway request, and change nothing.
C20_UnreachableFailsFast ==
    [][(last'.op \in {"create", "start", "stop", "destroy", "delete"} /\ ~last'.pre.up) =>
          /\ ~last'.mgr.ok
          /\ last'.mgr.msg = "ConnectionFailure"
          /\ last'.mgr.steps = <<>>
          /\ ~last'.gw.called
          /\ conn' = "none"
          /\ domains' = domains /\ files' = files /\ records' = records
          /\ gwUsers' = gwUsers /\ gwConns' = gwConns /\ gwPerms' = gwPerms]_vars

C20_Witness ==
    /\ last.op = "delete"
    /\ ~last.pre.up
    /\ last.pre.known
    /\ last.pre.conn = "dead"
    /\ last.mgr.msg = "ConnectionFailure"
    /\ last.name \in DOMAIN domains

\* C21: no two records share a name, and a record whose name the hypervisor
\* knows has exactly one domain of that name: a row is inserted only under a
\* name that has no row, a request under a name that has one is refused and
\* leaves the store as it was, and no domain is defined under a known name.
C21_RowsOf(name) == {r \in get_all_vm_records(records) : r[2] = PyStr(name)}

C22_RecordHoldsGrantResult ==
    (last.op = "create" /\ last.success /\ last.http < 400 /\ last.gw.outcome = "ok") =>
        /\ last.name \in DOMAIN records
        /\ records[last.name].vnc_port = last.gw.data.vncport
        /\ records[last.name].link = last.gw.data.link
        /\ records[last.name].connid = ParseInt(last.gw.data.connid)

\* C23: Create with the golden image absent fails with TemplateMissing and
\* has no effect: no overlay is created or removed, no domain is defined or
\* started, and nothing is asked of the gateway or written to the store.
C23_MissingTemplateFailsWithoutEffect ==
    [][(last'.op = "create" /\ last'.pre.up /\ ~last'.pre.base) =>
          /\ ~last'.mgr.ok
          /\ ~last'.success
          /\ last'.mgr.msg = "TemplateMissing"
          /\ last'.mgr.steps = <<>>
          /\ files' = files
          /\ domains' = domains
          /\ ~last'.gw.called
          /\ UNCHANGED <<gwUsers, gwConns, gwPerms, nextConnId, records>>]_vars

\* Create was asked without the golden image while an overlay of the name
\* lay on the disk.
C23_Witness ==
    /\ last.op = "create"
    /\ last.pre.up
    /\ ~last.pre.base
    /\ last.pre.overlay
    /\ last.mgr.msg = "TemplateMissing"
    /\ last.name \in files

\* C24: Stop only sends the shutdown signal: after a success the domain is
\* as it was, still active and not shut off, the record says stopping; no
\* Stop removes a domain, and a domain is never turned shut off by a Stop.
C24_StopOnlySignals ==
    [][/\ (last'.op = "stop") => DOMAIN domains' = DOMAIN domains
       /\ (last'.op = "stop" /\ last'.mgr.ok) =>
             /\ domains' = domains
             /\ isActive(domains'[last'.name])
             /\ Status(domains', last'.name) # "Shut Off"
             /\ last'.mgr.steps = <<"lookupByName", "shutdown">>
             /\ last'.pre.record => records'[last'.name].status = ST_STOPPING_CN
       /\ \A n \in DOMAIN domains \cap DOMAIN domains' :
             (Status(domains, n) # "Shut Off" /\ Status(domains', n) = "Shut Off") =>
                 last'.op # "stop"]_vars

\* A Stop returned success and the domain is still running.
C24_Witness ==
    /\ last.op = "stop"
    /\ last.mgr.ok
    /\ last.success
    /\ Status(domains, last.name) = "Running"
    /\ last.name \in DOMAIN records
    /\ records[last.name].status = ST_STOPPING_CN

\* Hypervisor state codes are taken from -1 to MaxStateCode.
MaxStateCode == 8

C25_StatusNames ==
    <<"No State", "Running", "Blocked", "Paused", "Shutting Down", "Shut Off", "Crashed",
      "Suspended">>

\* C25: the status normalization is total: the eight state codes map to
\* their names and every other code to the unknown status, so the status
\* of every known domain is read, alone and in the listing.
C25_StatusMapTotal ==
    /\ \A code \in -1..MaxStateCode :
          status_map(code) =
              IF code \in VIR_DOMAIN_NOSTATE..VIR_DOMAIN_PMSUSPENDED
              THEN C25_StatusNames[code + 1]
              ELSE "Unknown State"
    /\ \A n \in DOMAIN domains :
          /\ Status(domains, n) = C25_StatusNames[domains[n].state + 1]
          /\ hvUp => \E d \in list_vms(conn, domains, hvUp).vms :
                         d.name = n /\ d.status = C25_StatusNames[domains[n].state + 1]

\* A list-view read was made while one domain was shutting down and another
\* was running.
C25_Witness ==
    /\ last.op = "index"
    /\ last.fault = "none"
    /\ hvUp
    /\ \E n, m \in DOMAIN domains :
          /\ Status(domains, n) = "Shutting Down"
          /\ Status(domains, m) = "Running"

C26_GrantOrder == <<"add_user", "add_connection", "grant_permission">>

\* C26: Grant runs create-user, create-connection, grant-permission in this
\* order; a failure at a step makes Grant return a failure after that step,
\* and what the earlier steps created stays at the gateway.
C26_FailedStepIsReturned ==
    (last.op = "create" /\ last.gw.called) =>
        /\ \E k \in 0..Len(C26_GrantOrder) : last.gw.steps = SubSeq(C26_GrantOrder, 1, k)
        /\ last.gw.outcome = "ok" => last.gw.steps = C26_GrantOrder
        /\ last.gw.outcome # "ok" => last.gw.outcome = "fail"
        /\ Passed(last.gw.steps, "add_user") => last.name \in gwUsers
        /\ Passed(last.gw.steps, "add_connection") =>
               \E id \in DOMAIN gwConns : gwConns[id].name = "vm_" \o last.name

C28_ClientHeldOnlyInSession ==
    /\ last.gw.client = GuacUnset
    /\ ~guac_enter(GuacUnset, FALSE).raised
    /\ SessionOf(guac_enter(GuacUnset, FALSE).client) = "active"
    /\ guac_enter(GuacUnset, TRUE).raised
    /\ guac_enter(GuacUnset, TRUE).client = GuacUnset
    /\ guac_exit(guac_enter(GuacUnset, FALSE).client) = GuacUnset
    /\ guac_exit(guac_enter(GuacUnset, TRUE).client) = GuacUnset
    /\ \A name \in Names, fault \in GrantFaults \cup {"none"} :
          LET g == grant_user_permissions(SessionOf(GuacUnset), gwUsers, gwConns, gwPerms,
                                          nextConnId, name, VNC_PORT_START, DEFAULT_MAXCONN,
                                          fault)
          IN  /\ g.outcome = "fail"
              /\ g.steps = <<>>
              /\ <<g.users, g.conns, g.perms, g.next>> =
                     <<gwUsers, gwConns, gwPerms, nextConnId>>
    /\ \A name \in Names, connid \in 1..MaxConnId, fault \in RevokeFaults \cup {"none"} :
          LET g == delete_user_and_vm(SessionOf(GuacUnset), gwUsers, gwConns, gwPerms,
                                      nextConnId, name, connid, fault)
          IN  /\ g.outcome = "fail"
              /\ g.steps = <<>>
              /\ <<g.users, g.conns, g.perms, g.next>> =
                     <<gwUsers, gwConns, gwPerms, nextConnId>>

\* A with block was left by an exception of Grant, and the gateway holds a
\* user and a connection that a call without a session would leave alone.
C28_Witness ==
    /\ last.op = "create"
    /\ last.gw.called
    /\ last.gw.outcome = "raise"
    /\ last.gw.client = GuacUnset
    /\ gwUsers # {}
    /\ DOMAIN gwConns # {}

\* The requests whose manager operation starts with _reconnect.
C29_Reconnects(l) ==
    \/ l.op \in {"create", "start", "stop", "destroy", "delete"}
    \/ l.op = "index" /\ l.fault # "backend_down"

\* C29: the handle is reopened exactly when it is missing or dead: a live
\* handle is kept, a dead or missing one is reopened when the hypervisor is
\* reachable and the operation goes on, and a failed reopen leaves none.
C29_HandleReopenedWhenDead ==
    [][C29_Reconnects(last') =>
          /\ last'.pre.conn = "live" => conn' = "live"
          /\ (last'.pre.conn # "live" /\ last'.pre.up) =>
                 /\ conn' = "live"
                 /\ last'.op # "index" => last'.mgr.msg # "ConnectionFailure"
          /\ (last'.pre.conn # "live" /\ ~last'.pre.up) =>
                 /\ conn' = "none"
                 /\ last'.op # "index" => last'.mgr.msg = "ConnectionFailure"]_vars

\* An operation started with a dead handle and a reachable hypervisor, and
\* succeeded.
C29_Witness ==
    /\ C29_Reconnects(last)
    /\ last.pre.conn = "dead"
    /\ last.pre.up
    /\ last.mgr.ok
    /\ conn = "live"

\* C30: the port a successful Create returns is the port of the descriptor:
\* get_vm_vnc_port and the details of the domain read exactly it back, and
\* the disk path read back is the overlay of the name.
C30_PortAndDiskReadBack ==
    (last.op = "create" /\ last.mgr.ok) =>
        /\ last.name \in DOMAIN domains
        /\ get_vm_vnc_port(conn, domains, hvUp, last.name).port = PyInt(last.mgr.vnc_port)
        /\ get_domain_details(last.name, domains[last.name]).vnc_port =
               PyInt(last.mgr.vnc_port)
        /\ get_domain_details(last.name, domains[last.name]).disk_path = last.name
        /\ get_disk_path(domains[last.name]) \in files

\* A Create succeeded on another port than the first of the range.
C30_Witness ==
    /\ last.op = "create"
    /\ last.mgr.ok
    /\ last.mgr.vnc_port > VNC_PORT_START
    /\ get_vm_vnc_port(conn, domains, hvUp, last.name).port = PyInt(last.mgr.vnc_port)

\* C31: a stale overlay at the path of a name the hypervisor does not know
\* is force-removed before the clone, so the overlay after a successful
\* Create is the cloned one; when the removal fails, Create fails and
\* clones, defines and starts nothing.  No removal is made without one.
C31_StaleOverlayRemovedFirst ==
    [][(last'.op = "create" /\ last'.pre.up /\ last'.pre.base /\ ~last'.pre.known) =>
          LET steps == last'.mgr.steps
          IN  /\ last'.pre.overlay =>
                    /\ Len(steps) >= 2
                    /\ steps[1] = "lookupByName"
                    /\ steps[2] = "rm_force"
                    /\ Did(steps, "qemu_img_create") =>
                           /\ steps[3] = "qemu_img_create"
                           /\ last'.fault # "rm_stale"
                    /\ last'.mgr.ok => last'.name \in files'
                    /\ last'.fault = "rm_stale" =>
                           /\ ~last'.mgr.ok
                           /\ last'.mgr.msg = "CommandFailure"
                           /\ steps = <<"lookupByName", "rm_force">>
                           /\ files' = files
                           /\ domains' = domains
              /\ (~last'.pre.overlay /\ Len(steps) >= 2) => steps[2] = "qemu_img_create"]_vars

\* A Create succeeded for an unknown name whose overlay lay on the disk.
C31_Witness ==
    /\ last.op = "create"
    /\ last.mgr.ok
    /\ last.pre.overlay
    /\ ~last.pre.known
    /\ last.name \in files

\* C32: the enumeration is complete or fails visibly: an answer of the list
\* endpoint that is not an error holds exactly one entry for every domain
\* the hypervisor knows.
C32_EnumerationCompleteOrError ==
    (last.op = "index" /\ last.fault = "none") =>
        LET answer == server_list_vms(last.pre.conn, domains, hvUp)
        IN  answer.http < 400 =>
                /\ {d.name : d \in answer.vms} = DOMAIN domains
                /\ Cardinality(answer.vms) = Cardinality(DOMAIN domains)

\* C35: when the creation flow reports failure, no domain of the requested
\* name is known to the hypervisor without a record in the store.
C35_FailedFlowLeavesNoOrphanDomain ==
    (last.op = "create" /\ ~last.success) =>
        (last.name \in DOMAIN domains => last.name \in DOMAIN records)

\* C36: a failed Create leaves the hypervisor's known set as it was: after
\* a define that succeeded and a start that failed no domain of the name
\* stays defined.
C36_FailedCreateLeavesNoDomain ==
    (last.op = "create" /\ ~last.mgr.ok /\ ~last.pre.known) =>
        last.name \notin DOMAIN domains

\* C38: Delete removes a disk file only after the undefine succeeded: when
\* the lookup, the power-off, the descriptor read or the undefine fails,
\* Delete fails, the domain stays known and no file is touched.
C38_DiskRemovedOnlyAfterUndefine ==
    [][last'.op = "delete" =>
          /\ files' # files =>
                /\ Passed(last'.mgr.steps, "undefine")
                /\ last'.name \notin DOMAIN domains'
                /\ files' = files \ {get_disk_path(domains[last'.name])}
          /\ (last'.pre.up /\ (~last'.pre.known \/ last'.fault \in
                  {"destroy_raise", "xml_raise", "undefine_raise"})) =>
                /\ ~last'.mgr.ok
                /\ ~Did(last'.mgr.steps, "rm_force")
                /\ files' = files
                /\ DOMAIN domains' = DOMAIN domains]_vars

\* The undefine of a Delete failed after the forced power-off; the domain
\* and its disk are still there.
C38_Witness ==
    /\ last.op = "delete"
    /\ last.fault = "undefine_raise"
    /\ last.pre.active
    /\ ~last.mgr.ok
    /\ last.name \in DOMAIN domains
    /\ get_disk_path(domains[last.name]) \in files

\* C39: Start, Stop and Destroy, succeeding or failing, leave unchanged the
\* set of known names, every overlay, every other domain, the descriptor
\* of the named domain, and the gateway's users, connections, permissions.
C39_PowerActionsFrame ==
    [][last'.op \in {"start", "stop", "destroy"} =>
          /\ DOMAIN domains' = DOMAIN domains
          /\ files' = files
          /\ \A n \in DOMAIN domains \ {last'.name} : domains'[n] = domains[n]
          /\ \A n \in DOMAIN domains :
                /\ domains'[n].vnc_port = domains[n].vnc_port
                /\ domains'[n].file = domains[n].file
          /\ UNCHANGED <<gwUsers, gwConns, gwPerms, nextConnId>>
          /\ DOMAIN records' = DOMAIN records]_vars

\* A Destroy succeeded while another domain was running and the gateway
\* held users, connections and permissions.
C39_Witness ==
    /\ last.op = "destroy"
    /\ last.mgr.ok
    /\ last.name \in files
    /\ \E n \in DOMAIN domains \ {last.name} : isActive(domains[n])
    /\ gwPerms # {}

\* C40: a Create the manager rejects is answered by the endpoint as a
\* client error, status 400, not with the 500 of unexpected exceptions.
C40_RejectedCreateIsClientError ==
    (last.op = "create" /\ last.mgr.called /\ ~last.mgr.ok) =>
        last.http = HTTP_400_BAD_REQUEST

\* Listener sets are taken over MaxProbe + 1 consecutive ports.
MaxProbe == 3

\* The probe from p over the listeners L ends at a free port it reached
\* attempt by attempt, provided a port from p to PORT_MAX is free.
C34_ProbeEnds(p, L) ==
    LET r == probe_loop(p, L, 0)
    IN  (\E q \in p..PORT_MAX : q \notin L) =>
            /\ ~r.raised
            /\ r.port \in p..PORT_MAX
            /\ r.port \notin L
            /\ \A q \in p..(r.port - 1) : q \in L
            /\ r.attempts = r.port - p + 1

\* The probe ends for every set of listeners on the first ports of the
\* range and on its last ports, from every port it can start at there.
C34_ProbeEndsOnRanges ==
    /\ \A L \in SUBSET (VNC_PORT_START..(VNC_PORT_START + MaxProbe)) :
          C34_ProbeEnds(VNC_PORT_START, L)
    /\ \A L \in SUBSET ((PORT_MAX - MaxProbe)..PORT_MAX) :
          \A p \in (PORT_MAX - MaxProbe)..PORT_MAX : C34_ProbeEnds(p, L)

\* C34: the port probe of Create terminates: with a port up to 65535 free of
\* a listener it stops after finitely many attempts at a port whose attempt
\* was refused, and Create goes on from the probe to the definition.
C34_ProbeTerminates ==
    [][/\ (last'.op = "create" /\ Did(last'.mgr.steps, "probe")) =>
             LET r == probe_loop(VNC_PORT_START, Listeners(domains), 0)
             IN  /\ C34_ProbeEnds(VNC_PORT_START, Listeners(domains))
                 /\ ~r.raised
                 /\ r.attempts <= Cardinality(Listeners(domains)) + 1
                 /\ r.port = ProbePort(VNC_PORT_START, Listeners(domains))
                 /\ Passed(last'.mgr.steps, "probe")
                 /\ last'.mgr.ok => last'.mgr.vnc_port = r.port
       /\ C34_ProbeEndsOnRanges]_vars

\* A Create succeeded whose probe found listeners on the first ports and
\* took more than one attempt.
C34_Witness ==
    /\ last.op = "create"
    /\ last.mgr.ok
    /\ Did(last.mgr.steps, "probe")
    /\ probe_loop(VNC_PORT_START, Listeners(domains) \ {last.mgr.vnc_port}, 0).attempts > 1
    /\ probe_loop(VNC_PORT_START, Listeners(domains) \ {last.mgr.vnc_port}, 0).port =
           last.mgr.vnc_port

\* Two Create calls on different names have both returned success with the
\* same console port.
C33_SamePort(n, m) ==
    /\ n # m
    /\ creating[n].pc = "done"
    /\ creating[m].pc = "done"
    /\ creating[n].port = creating[m].port

\* C33: two concurrent Create calls on different names can both return
\* success with the same console port, and they do so only when both passed
\* the port probe before either domain was started.
C33_SamePortOnlyByRace ==
    \A n, m \in Names :
        C33_SamePort(n, m) => m \notin creating[n].active /\ n \notin creating[m].active

\* Both calls probed before either domain was started, both returned
\* success, and both domains run with the same console port.
C33_Witness ==
    \E n, m \in Names :
        /\ C33_SamePort(n, m)
        /\ creating[n].active = {}
        /\ creating[m].active = {}
        /\ {n, m} \subseteq ActiveNames
        /\ domains[n].vnc_port = domains[m].vnc_port
        /\ {n, m} \subseteq DOMAIN records

\* C37: a list view that read the records, during which a name was deleted
\* and created again with a new record, never deletes with its loop the
\* record of a VM the hypervisor knows at that moment.
C37_PassKeepsRecreatedRecords ==
    [][last'.op = "pass_act" =>
          \A n \in view.back :
              (n \in DOMAIN records /\ n \in DOMAIN domains) => n \in DOMAIN records']_vars

====
